---- MODULE Spec2Model ----
(***************************************************************************)
(* A model of cookpad-py: the asynchronous API client (cookpad/client.py)  *)
(* with its transport-handle lifecycle, request construction and status    *)
(* triage, and the JSON decoders of cookpad/types.py.                      *)
(*                                                                         *)
(* Python and JSON values are tagged records, so that values of different  *)
(* Python types can be compared: None/null, str, int, bool, list, dict,    *)
(* the dataclass entities, and a raised exception.                         *)
(***************************************************************************)
EXTENDS Integers, Sequences, FiniteSets, TLC

VARIABLES
    client,      \* Cookpad._client: None, or the transport handle held
    created,     \* number of httpx.AsyncClient() handles constructed so far
    closeCount,  \* per handle, the number of aclose() calls made on it
    depth,       \* number of `async with` scopes entered and not yet exited
    exiting,     \* TRUE while __aexit__ is suspended in `await aclose()`
    task,        \* per caller task, the position of its operation call
    config,      \* the seven values __init__ stored (token, country, ...)
    drawn,       \* number of uuid.uuid4() values drawn so far
    guidsSent,   \* the X-Cookpad-Guid of every request issued so far
    fn,         \* decoder run: the parse function applied last
    input,       \* decoder run: its argument
    output       \* decoder run: the entity returned, or the exception raised

vars ==
    <<client, created, closeCount, depth, exiting, task, config, drawn, guidsSent,
      fn, input, output>>

clientVars ==
    <<client, created, closeCount, depth, exiting, task, config, drawn, guidsSent>>

decodeVars == <<fn, input, output>>

(***************************************************************************)
(* Bounds of the model.                                                    *)
(***************************************************************************)
MaxHandles == 3

MaxDepth == 1

\* The number of requests a client issues.
MaxRequests == 2

\* Decoder inputs: the number of keys of a full payload altered at once, and
\* the lengths of the attachment and result lists.
MaxVaried == 2

MaxAtts == 2

MaxItems == 4

(***************************************************************************)
(* Python / JSON values.                                                   *)
(***************************************************************************)
PyNone == [t |-> "null"]

JStr(s) == [t |-> "str", s |-> s]

JInt(n) == [t |-> "int", n |-> n]

JBool(b) == [t |-> "bool", b |-> b]

JList(l) == [t |-> "list", l |-> l]

JObj(o) == [t |-> "obj", o |-> o]

EmptyObj == [t |-> "obj", o |-> [k \in {} |-> PyNone]]

Raise(e) == [t |-> "raise", e |-> e]

IsRaise(v) == v.t = "raise"

IsObj(v) == v.t = "obj"

IsList(v) == v.t = "list"

\* Python truth value of v (the test of `if x := ...` and of `a or b`).
Truthy(v) ==
    CASE v.t = "null" -> FALSE
      [] v.t = "str" -> v.s # ""
      [] v.t = "int" -> v.n # 0
      [] v.t = "bool" -> v.b
      [] v.t = "list" -> Len(v.l) > 0
      [] v.t = "obj" -> DOMAIN v.o # {}

\* `k in d` for a dict d.
Has(d, k) == k \in DOMAIN d.o

\* d.get(k, dflt) for a dict d: the stored value (null included) when the key
\* is present, the default only when it is missing.
Get(d, k, dflt) == IF Has(d, k) THEN d.o[k] ELSE dflt

\* `a or b`
Or(a, b) == IF Truthy(a) THEN a ELSE b

\* str(v)
PyStr(v) ==
    CASE v.t = "null" -> JStr("None")
      [] v.t = "str" -> v
      [] v.t = "int" -> JStr(ToString(v.n))
      [] v.t = "bool" -> JStr(IF v.b THEN "True" ELSE "False")

\* s.lower() on the strings str(bool) can produce.
Lower(v) ==
    CASE v.s = "True" -> JStr("true")
      [] v.s = "False" -> JStr("false")
      [] OTHER -> v

(***************************************************************************)
(* cookpad/types.py: the decoders.  A decoder returns the entity, or the   *)
(* exception the Python code raises (AttributeError for `.get` on a value  *)
(* that is no dict, TypeError for iterating or testing `in` on None).      *)
(***************************************************************************)

\* The first exception of a comprehension's results, else the list of them.
FirstRaiseOr(r) ==
    IF \E i \in DOMAIN r : IsRaise(r[i])
    THEN r[CHOOSE i \in DOMAIN r : IsRaise(r[i]) /\ \A j \in 1..(i - 1) : ~IsRaise(r[j])]
    ELSE JList(r)

parse_image(data) ==
    IF ~IsObj(data) THEN Raise("AttributeError")
    ELSE [t |-> "Image",
          url |-> Get(data, "url", JStr("")),
          id |-> PyStr(Get(data, "id", JStr(""))),
          filename |-> Get(data, "filename", JStr("")),
          alt_text |-> Get(data, "alt_text", PyNone)]

parse_ingredient(data) ==
    IF ~IsObj(data) THEN Raise("AttributeError")
    ELSE [t |-> "Ingredient",
          name |-> Get(data, "name", JStr("")),
          quantity |-> Get(data, "quantity", JStr("")),
          id |-> Get(data, "id", JInt(0)),
          headline |-> Get(data, "headline", JBool(FALSE)),
          sanitized_name |-> Get(data, "sanitized_name", JStr(""))]

\* The body of parse_step's loop from the i-th attachment on: the value left
\* in image_url, or the exception raised.
RECURSIVE scan_attachments(_, _)
scan_attachments(atts, i) ==
    IF i > Len(atts) THEN PyNone
    ELSE LET att == atts[i] IN
         CASE att.t \in {"null", "int", "bool"} -> Raise("TypeError")
           [] att.t = "obj" ->
                IF Has(att, "url") THEN att.o["url"]
                ELSE LET img == Get(att, "image", PyNone) IN
                     IF Truthy(img)
                     THEN (IF IsObj(img) THEN Get(img, "url", PyNone)
                           ELSE Raise("AttributeError"))
                     ELSE scan_attachments(atts, i + 1)

parse_step(data) ==
    IF ~IsObj(data) THEN Raise("AttributeError")
    ELSE LET atts == Get(data, "attachments", JList(<<>>))
             image_url == CASE atts.t = "list" -> scan_attachments(atts.l, 1)
                            [] atts.t \in {"null", "int", "bool"} -> Raise("TypeError")
         IN  IF IsRaise(image_url) THEN image_url
             ELSE [t |-> "Step",
                   description |-> Get(data, "description", JStr("")),
                   id |-> Get(data, "id", JInt(0)),
                   image_url |-> image_url]

\* `image_url = None; if img := data.get("image"): image_url = img.get("url")`
nested_image_url(data) ==
    LET img == Get(data, "image", PyNone) IN
    IF Truthy(img)
    THEN (IF IsObj(img) THEN Get(img, "url", PyNone) ELSE Raise("AttributeError"))
    ELSE PyNone

parse_user(data) ==
    IF ~IsObj(data) THEN Raise("AttributeError")
    ELSE LET image_url == nested_image_url(data) IN
         IF IsRaise(image_url) THEN image_url
         ELSE [t |-> "User",
               id |-> Get(data, "id", JInt(0)),
               name |-> Get(data, "name", JStr("")),
               profile_message |-> Or(Get(data, "profile_message", JStr("")), JStr("")),
               image_url |-> image_url,
               recipe_count |-> Get(data, "recipe_count", JInt(0)),
               follower_count |-> Get(data, "follower_count", JInt(0)),
               followee_count |-> Get(data, "followee_count", JInt(0)),
               cookpad_id |-> Get(data, "cookpad_id", JStr("")),
               href |-> Get(data, "href", JStr(""))]

\* `user = None; if user_data := data.get("user"): user = parse_user(user_data)`
nested_user(data) ==
    LET user_data == Get(data, "user", PyNone) IN
    IF Truthy(user_data) THEN parse_user(user_data) ELSE PyNone

\* [parse_ingredient(i) for i in v]
parse_ingredients(v) ==
    CASE v.t = "list" -> FirstRaiseOr([i \in 1..Len(v.l) |-> parse_ingredient(v.l[i])])
      [] v.t \in {"null", "int", "bool"} -> Raise("TypeError")

\* [parse_step(s) for s in v]
parse_steps(v) ==
    CASE v.t = "list" -> FirstRaiseOr([i \in 1..Len(v.l) |-> parse_step(v.l[i])])
      [] v.t \in {"null", "int", "bool"} -> Raise("TypeError")

parse_recipe(data) ==
    IF ~IsObj(data) THEN Raise("AttributeError")
    ELSE LET image_url == nested_image_url(data)
             user == nested_user(data)
             ingredients == parse_ingredients(Get(data, "ingredients", JList(<<>>)))
             steps == parse_steps(Get(data, "steps", JList(<<>>)))
         IN  CASE IsRaise(image_url) -> image_url
               [] IsRaise(user) -> user
               [] IsRaise(ingredients) -> ingredients
               [] IsRaise(steps) -> steps
               [] OTHER ->
                    [t |-> "Recipe",
                     id |-> Get(data, "id", JInt(0)),
                     title |-> Get(data, "title", JStr("")),
                     story |-> Or(Get(data, "story", JStr("")), JStr("")),
                     serving |-> Or(Get(data, "serving", JStr("")), JStr("")),
                     cooking_time |-> Get(data, "cooking_time", PyNone),
                     published_at |-> Get(data, "published_at", JStr("")),
                     hall_of_fame |-> Get(data, "hall_of_fame", JBool(FALSE)),
                     cooksnaps_count |-> Get(data, "cooksnaps_count", JInt(0)),
                     image_url |-> image_url,
                     ingredients |-> ingredients,
                     user |-> user,
                     advice |-> Or(Get(data, "advice", JStr("")), JStr("")),
                     bookmarks_count |-> Get(data, "bookmarks_count", JInt(0)),
                     view_count |-> Get(data, "view_count", JInt(0)),
                     comments_count |-> Get(data, "comments_count", JInt(0)),
                     steps |-> steps,
                     href |-> Get(data, "href", JStr("")),
                     country |-> Get(data, "country", JStr("")),
                     language |-> Get(data, "language", JStr("")),
                     premium |-> Get(data, "premium", JBool(FALSE))]

parse_comment(data) ==
    IF ~IsObj(data) THEN Raise("AttributeError")
    ELSE LET user == nested_user(data)
             image_url == nested_image_url(data)
         IN  CASE IsRaise(user) -> user
               [] IsRaise(image_url) -> image_url
               [] OTHER ->
                    [t |-> "Comment",
                     id |-> Get(data, "id", JInt(0)),
                     body |-> Get(data, "body", JStr("")),
                     created_at |-> Get(data, "created_at", JStr("")),
                     label |-> Get(data, "label", JStr("")),
                     user |-> user,
                     image_url |-> image_url,
                     cursor |-> Get(data, "cursor", JStr("")),
                     likes_count |-> Get(data, "likes_count", JInt(0)),
                     replies_count |-> Get(data, "replies_count", JInt(0))]

\* is_recipe_card accepting every tagged item.
is_recipe_card_any_kind(item) == Get(item, "type", PyNone).t = "str"

\* The tag test of parse_search_response's comprehension.
is_recipe_card(item) == Get(item, "type", PyNone) = JStr("search_results/recipe")

\* [parse_recipe(item) for item in items if item.get("type") == "search_results/recipe"]
\* from the i-th item on, evaluated item by item as Python does.
RECURSIVE recipe_cards(_, _)
recipe_cards(items, i) ==
    IF i > Len(items) THEN JList(<<>>)
    ELSE LET item == items[i] IN
         IF ~IsObj(item) THEN Raise("AttributeError")
         ELSE IF is_recipe_card(item)
              THEN LET r == parse_recipe(item)
                       rest == recipe_cards(items, i + 1)
                   IN  CASE IsRaise(r) -> r
                         [] IsRaise(rest) -> rest
                         [] OTHER -> JList(<<r>> \o rest.l)
              ELSE recipe_cards(items, i + 1)

\* extra.get("total_count", 0) for extra = data.get("extra", {})
total_count_of(data) ==
    LET extra == Get(data, "extra", EmptyObj) IN
    IF ~IsObj(extra) THEN Raise("AttributeError")
    ELSE Get(extra, "total_count", JInt(0))

\* next_page_of reading `page` from `links` instead of from `links.next`.
next_page_of_links(data) ==
    LET extra == Get(data, "extra", EmptyObj) IN
    IF ~IsObj(extra) THEN Raise("AttributeError")
    ELSE LET links == Get(extra, "links", EmptyObj) IN
         IF ~IsObj(links) THEN Raise("AttributeError")
         ELSE Get(links, "page", PyNone)

\* `next_page = None; if next_link := extra.get("links", {}).get("next"):
\*  next_page = next_link.get("page")`
next_page_of(data) ==
    LET extra == Get(data, "extra", EmptyObj) IN
    IF ~IsObj(extra) THEN Raise("AttributeError")
    ELSE LET links == Get(extra, "links", EmptyObj) IN
         IF ~IsObj(links) THEN Raise("AttributeError")
         ELSE LET next_link == Get(links, "next", PyNone) IN
              IF Truthy(next_link)
              THEN (IF IsObj(next_link) THEN Get(next_link, "page", PyNone)
                    ELSE Raise("AttributeError"))
              ELSE PyNone

parse_search_response(data) ==
    IF ~IsObj(data) THEN Raise("AttributeError")
    ELSE LET result == Get(data, "result", JList(<<>>))
             recipes == CASE result.t = "list" -> recipe_cards(result.l, 1)
                          [] result.t \in {"null", "int", "bool"} -> Raise("TypeError")
             total_count == total_count_of(data)
             next_page == next_page_of(data)
         IN  CASE IsRaise(recipes) -> recipes
               [] IsRaise(total_count) -> total_count
               [] IsRaise(next_page) -> next_page
               [] OTHER ->
                    [t |-> "SearchResponse",
                     recipes |-> recipes,
                     total_count |-> total_count,
                     next_page |-> next_page,
                     raw |-> data]

\* [parse_comment(c) for c in v]
parse_comments(v) ==
    CASE v.t = "list" -> FirstRaiseOr([i \in 1..Len(v.l) |-> parse_comment(v.l[i])])
      [] v.t \in {"null", "int", "bool"} -> Raise("TypeError")

\* next_cursor_of taking the cursor of the first comment.
next_cursor_of_first(comments) ==
    IF Len(comments) > 0 /\ Truthy(comments[1].cursor)
    THEN comments[1].cursor
    ELSE PyNone

\* `next_cursor = None; if comments and comments[-1].cursor:
\*  next_cursor = comments[-1].cursor`
next_cursor_of(comments) ==
    IF Len(comments) > 0 /\ Truthy(comments[Len(comments)].cursor)
    THEN comments[Len(comments)].cursor
    ELSE PyNone

parse_comments_response(data) ==
    IF ~IsObj(data) THEN Raise("AttributeError")
    ELSE LET comments == parse_comments(Get(data, "result", JList(<<>>))) IN
         IF IsRaise(comments) THEN comments
         ELSE [t |-> "CommentsResponse",
               comments |-> comments,
               next_cursor |-> next_cursor_of(comments.l)]

\* [parse_user(u) for u in v]
parse_users(v) ==
    CASE v.t = "list" -> FirstRaiseOr([i \in 1..Len(v.l) |-> parse_user(v.l[i])])
      [] v.t \in {"null", "int", "bool"} -> Raise("TypeError")

parse_users_response(data) ==
    IF ~IsObj(data) THEN Raise("AttributeError")
    ELSE LET users == parse_users(Get(data, "result", JList(<<>>)))
             total_count == total_count_of(data)
             next_page == next_page_of(data)
         IN  CASE IsRaise(users) -> users
               [] IsRaise(total_count) -> total_count
               [] IsRaise(next_page) -> next_page
               [] OTHER ->
                    [t |-> "UsersResponse",
                     users |-> users,
                     total_count |-> total_count,
                     next_page |-> next_page]

(***************************************************************************)
(* Decoder inputs.  An input is a full JSON object of the upstream schema  *)
(* in which up to MaxVaried keys are altered: removed (Absent), set to an  *)
(* explicit null, or set to another value of the key (nested objects and   *)
(* lists with their own absent, null and present keys).  The actions of    *)
(* SpecDecode draw the alterations.                                        *)
(***************************************************************************)
Absent == [t |-> "absent"]

Alter(obj, k, a) ==
    IF a = Absent
    THEN JObj([x \in (DOMAIN obj.o) \ {k} |-> obj.o[x]])
    ELSE JObj([x \in (DOMAIN obj.o) \cup {k} |-> IF x = k THEN a ELSE obj.o[x]])

\* The alterations <<key, value>> a table of alternatives offers.
AltPairs(alts) == UNION { { <<k, a>> : a \in alts[k] } : k \in DOMAIN alts }

\* obj with the alterations vs[i], vs[i+1], ... applied in turn.
RECURSIVE AlterAll(_, _, _)
AlterAll(obj, vs, i) ==
    IF i > Len(vs) THEN obj ELSE AlterAll(Alter(obj, vs[i][1], vs[i][2]), vs, i + 1)

\* Sequences over S of length at most n.
SeqsUpTo(S, n) == UNION { [1..m -> S] : m \in 0..n }

Lists(S, n) == { JList(l) : l \in SeqsUpTo(S, n) }

NullOrAbsent == {Absent, PyNone}

FullImage ==
    JObj([url |-> JStr("u1"), id |-> JInt(7), filename |-> JStr("f.jpg"),
          alt_text |-> JStr("alt")])

ImagePairs == AltPairs([k \in DOMAIN FullImage.o |-> NullOrAbsent])

FullIngredient ==
    JObj([name |-> JStr("egg"), quantity |-> JStr("2"), id |-> JInt(3),
          headline |-> JBool(TRUE), sanitized_name |-> JStr("egg")])

IngredientPairs == AltPairs([k \in DOMAIN FullIngredient.o |-> NullOrAbsent])

\* Attachments: a direct url, a nested image.url, an image object without a
\* url, an empty or null image, neither key, a null url, both keys.
AttachmentPool ==
    { JObj([url |-> JStr("u1")]),
      JObj([image |-> JObj([url |-> JStr("u2")])]),
      JObj([image |-> JObj([id |-> JInt(1)])]),
      JObj([image |-> EmptyObj]),
      JObj([image |-> PyNone]),
      JObj([id |-> JInt(9)]),
      JObj([url |-> PyNone]),
      JObj([image |-> JObj([url |-> PyNone])]),
      JObj([url |-> JStr("u3"), image |-> JObj([url |-> JStr("u4")])]) }

FullStep ==
    JObj([description |-> JStr("mix"), id |-> JInt(1),
          attachments |-> JList(<<JObj([url |-> JStr("u1")])>>)])

StepPairs == AltPairs([k \in {"description", "id"} |-> NullOrAbsent])

ImageAlts ==
    { Absent, PyNone, EmptyObj, JObj([url |-> PyNone]), JObj([id |-> JInt(1)]) }

FullUser ==
    JObj([id |-> JInt(5), name |-> JStr("ann"), profile_message |-> JStr("hi"),
          image |-> JObj([url |-> JStr("img")]), recipe_count |-> JInt(2),
          follower_count |-> JInt(3), followee_count |-> JInt(4),
          cookpad_id |-> JStr("cp"), href |-> JStr("h")])

UserAlts ==
    [k \in DOMAIN FullUser.o |-> IF k = "image" THEN ImageAlts ELSE NullOrAbsent]

UserPairs == AltPairs(UserAlts)

FullRecipe ==
    JObj([id |-> JInt(1), title |-> JStr("A"), story |-> JStr("s"),
          serving |-> JStr("2"), cooking_time |-> JStr("10"),
          published_at |-> JStr("2026"), hall_of_fame |-> JBool(TRUE),
          cooksnaps_count |-> JInt(1), image |-> JObj([url |-> JStr("img")]),
          ingredients |-> JList(<<FullIngredient>>), user |-> FullUser,
          advice |-> JStr("a"), bookmarks_count |-> JInt(2), view_count |-> JInt(3),
          comments_count |-> JInt(4), steps |-> JList(<<FullStep>>),
          href |-> JStr("h"), country |-> JStr("JP"), language |-> JStr("ja"),
          premium |-> JBool(TRUE)])

RecipeAlts ==
    [k \in DOMAIN FullRecipe.o |->
        CASE k = "image" -> ImageAlts
          [] k = "user" ->
                { Absent, PyNone, EmptyObj, Alter(FullUser, "name", PyNone),
                  Alter(FullUser, "image", PyNone) }
          [] k = "ingredients" ->
                { Absent, PyNone, JList(<<>>),
                  JList(<<Alter(FullIngredient, "quantity", PyNone), FullIngredient>>) }
          [] k = "steps" ->
                { Absent, PyNone, JList(<<>>),
                  JList(<<Alter(FullStep, "attachments", PyNone)>>),
                  JList(<<Alter(FullStep, "attachments", Absent), FullStep>>) }
          [] OTHER -> NullOrAbsent]

RecipePairs == AltPairs(RecipeAlts)

FullComment ==
    JObj([id |-> JInt(1), body |-> JStr("nice"), created_at |-> JStr("2026"),
          label |-> JStr("cooksnap"), user |-> FullUser,
          image |-> JObj([url |-> JStr("img")]), cursor |-> JStr("c1"),
          likes_count |-> JInt(1), replies_count |-> JInt(2)])

CommentAlts ==
    [k \in DOMAIN FullComment.o |->
        CASE k = "image" -> ImageAlts
          [] k = "user" -> { Absent, PyNone, EmptyObj, Alter(FullUser, "name", PyNone) }
          [] k = "cursor" -> { Absent, PyNone, JStr("") }
          [] OTHER -> NullOrAbsent]

CommentPairs == AltPairs(CommentAlts)

\* The `extra` envelope with each of total_count, links, next, page absent,
\* null or present.
ExtraAlts ==
    { Absent, PyNone, EmptyObj,
      JObj([total_count |-> JInt(10)]),
      JObj([total_count |-> PyNone]),
      JObj([links |-> PyNone]),
      JObj([links |-> EmptyObj]),
      JObj([total_count |-> JInt(10), links |-> JObj([next |-> PyNone])]),
      JObj([total_count |-> JInt(10), links |-> JObj([next |-> EmptyObj])]),
      JObj([links |-> JObj([next |-> JObj([page |-> JInt(3)])])]),
      JObj([links |-> JObj([next |-> JObj([page |-> PyNone])])]),
      JObj([total_count |-> JInt(10), links |-> JObj([prev |-> JObj([page |-> JInt(1)])])]) }

FullExtra ==
    JObj([total_count |-> JInt(10), links |-> JObj([next |-> JObj([page |-> JInt(2)])])])

\* Items of a search listing: two recipe cards, a recipe card with a null
\* list, a title separator, an item without a tag, a null tag, and another
\* kind of card that carries a null list.
ItemPool ==
    { JObj([type |-> JStr("search_results/recipe"), id |-> JInt(1), title |-> JStr("A")]),
      JObj([type |-> JStr("search_results/recipe"), id |-> JInt(2), title |-> PyNone,
            user |-> PyNone]),
      JObj([type |-> JStr("search_results/recipe"), id |-> JInt(4), steps |-> PyNone]),
      JObj([type |-> JStr("search_results/title"), title |-> JStr("sep")]),
      JObj([id |-> JInt(3), title |-> JStr("C")]),
      JObj([type |-> PyNone, id |-> JInt(5)]),
      JObj([type |-> JStr("search_results/visual_guides"), steps |-> PyNone]) }

\* Listings: every result list under a full, an absent and a null `extra`,
\* and every `extra` under the short result lists.
SearchPayloads ==
    { Alter(Alter(EmptyObj, "result", r), "extra", e) :
        r \in NullOrAbsent \cup Lists(ItemPool, MaxItems),
        e \in {FullExtra, Absent, PyNone} }
    \cup
    { Alter(Alter(EmptyObj, "result", r), "extra", e) :
        r \in NullOrAbsent \cup Lists(ItemPool, 1),
        e \in ExtraAlts }

\* Comments with two distinct cursors, without a cursor, with a null and
\* with an empty cursor.
CommentPool ==
    { Alter(FullComment, "cursor", c) :
        c \in { JStr("c1"), JStr("c2"), Absent, PyNone, JStr("") } }

CommentsPayloads ==
    { Alter(EmptyObj, "result", r) : r \in NullOrAbsent \cup Lists(CommentPool, MaxItems) }

UserPool == { FullUser, Alter(FullUser, "image", PyNone), EmptyObj }

UsersPayloads ==
    { Alter(Alter(EmptyObj, "result", r), "extra", e) :
        r \in NullOrAbsent \cup Lists(UserPool, MaxItems),
        e \in ExtraAlts \cup {FullExtra} }

(***************************************************************************)
(* cookpad/constants.py and cookpad/exceptions.py.                         *)
(***************************************************************************)
RECURSIVE Join(_, _)
Join(sep, l) ==
    IF Len(l) = 0 THEN ""
    ELSE IF Len(l) = 1 THEN l[1]
    ELSE l[1] \o sep \o Join(sep, Tail(l))

SUPPORTED_SEARCH_TYPES ==
    Join(",", << "search_results/recipe", "search_results/visual_guides",
                 "search_results/spelling_suggestion", "search_results/title",
                 "search_results/add_recipe_prompt",
                 "search_results/premium_recipe_carousel",
                 "search_results/premium_recipe_promotion",
                 "search_results/library_recipes", "search_results/delicious_ways",
                 "search_results/popular_promo_recipe",
                 "search_results/premium_banner" >>)

\* The four error kinds the client raises.
ErrorKinds == {"AuthenticationError", "NotFoundError", "RateLimitError", "APIError"}

\* The base class of each exception class.
BaseOf(cls) ==
    CASE cls = "AuthenticationError" -> "CookpadError"
      [] cls = "NotFoundError" -> "CookpadError"
      [] cls = "RateLimitError" -> "CookpadError"
      [] cls = "APIError" -> "CookpadError"
      [] OTHER -> "Exception"

(***************************************************************************)
(* cookpad/client.py: the configuration and the headers of a request.      *)
(***************************************************************************)
API_HOST == "global-api.cookpad.com"

\* The defaults of __init__'s keyword arguments.
DefaultConfig ==
    [token |-> "54ccbf3be26f7d3d3c1e068d53032e98e3ff992d49979f8e120b323910f0b942",
     country |-> "JP",
     language |-> "ja",
     timezone_id |-> "Asia/Tokyo",
     timezone_offset |-> "+09:00",
     user_agent |-> "com.cookpad/2026.7.0; iOS/26.2.1; iPhone17,3; ; ja_JP;",
     provider_id |-> "8"]

\* The configurations clients are constructed with: the defaults, and every
\* value given by the caller.
Configs ==
    { DefaultConfig,
      [token |-> "tok", country |-> "US", language |-> "en",
       timezone_id |-> "America/New_York", timezone_offset |-> "-05:00",
       user_agent |-> "ua", provider_id |-> "1"] }

\* uuid4 giving one value whatever the draw.
uuid4_constant(n) == 1

\* uuid.uuid4() for the n-th draw from the random source: the draws are taken
\* to be pairwise distinct (122 random bits each), so a value stands for its
\* draw.
uuid4(n) == n

\* str(u).upper() of a drawn value.
GuidOf(u) == "GUID-" \o ToString(u)

\* headers with the default token in place of the configured one.
headers_default_token(cfg, u) ==
    [k \in { "Host", "Authorization", "X-Cookpad-Country-Selected",
             "X-Cookpad-Timezone-Id", "X-Cookpad-Provider-Id",
             "X-Cookpad-Timezone-Offset", "X-Cookpad-Guid", "Accept-Encoding",
             "Accept-Language", "Accept", "User-Agent" } |->
        CASE k = "Host" -> API_HOST
          [] k = "Authorization" -> "Bearer " \o DefaultConfig.token
          [] k = "X-Cookpad-Country-Selected" -> cfg.country
          [] k = "X-Cookpad-Timezone-Id" -> cfg.timezone_id
          [] k = "X-Cookpad-Provider-Id" -> cfg.provider_id
          [] k = "X-Cookpad-Timezone-Offset" -> cfg.timezone_offset
          [] k = "X-Cookpad-Guid" -> GuidOf(u)
          [] k = "Accept-Encoding" -> "gzip"
          [] k = "Accept-Language" -> cfg.language
          [] k = "Accept" -> "*/*"
          [] k = "User-Agent" -> cfg.user_agent]

\* _headers(): the dict built for one request from the configuration and the
\* uuid4 value drawn for it.
headers(cfg, u) ==
    [k \in { "Host", "Authorization", "X-Cookpad-Country-Selected",
             "X-Cookpad-Timezone-Id", "X-Cookpad-Provider-Id",
             "X-Cookpad-Timezone-Offset", "X-Cookpad-Guid", "Accept-Encoding",
             "Accept-Language", "Accept", "User-Agent" } |->
        CASE k = "Host" -> API_HOST
          [] k = "Authorization" -> "Bearer " \o cfg.token
          [] k = "X-Cookpad-Country-Selected" -> cfg.country
          [] k = "X-Cookpad-Timezone-Id" -> cfg.timezone_id
          [] k = "X-Cookpad-Provider-Id" -> cfg.provider_id
          [] k = "X-Cookpad-Timezone-Offset" -> cfg.timezone_offset
          [] k = "X-Cookpad-Guid" -> GuidOf(u)
          [] k = "Accept-Encoding" -> "gzip"
          [] k = "Accept-Language" -> cfg.language
          [] k = "Accept" -> "*/*"
          [] k = "User-Agent" -> cfg.user_agent]

(***************************************************************************)
(* cookpad/client.py: request construction.                                *)
(***************************************************************************)
Ops ==
    { "search_recipes", "get_recipe", "get_similar_recipes", "get_comments",
      "search_users", "search_keywords", "get_search_history" }

\* The arguments the callers pass (the defaults of the signatures, and the
\* alternatives the parameter set depends on).
ArgsOf(op) ==
    CASE op = "search_recipes" ->
            [query : {"curry"}, page : {1}, per_page : {30}, order : {"recent"},
             must_have_cooksnaps : BOOLEAN, minimum_cooksnaps : {0},
             must_have_photo_in_steps : BOOLEAN,
             included_ingredients : {"", "egg"},
             excluded_ingredients : {"", "nuts"}]
      [] op = "get_recipe" -> [recipe_id : {42}]
      [] op = "get_similar_recipes" -> [recipe_id : {42}, page : {1}, per_page : {30}]
      [] op = "get_comments" ->
            [recipe_id : {42}, limit : {20}, after : {""}, label : {"cooksnap"}]
      [] op = "search_users" -> [query : {"ann"}, page : {1}, per_page : {20}]
      [] op = "search_keywords" -> [query : {""}]
      [] op = "get_search_history" -> [local_history : {PyNone, JList(<<JStr("curry")>>)}]

\* params[k] = v
SetItem(params, k, v) == [x \in (DOMAIN params) \cup {k} |-> IF x = k THEN v ELSE params[x]]

\* search_params with the ingredient filters set unconditionally.
search_params_unconditional(a) ==
    [query |-> JStr(a.query),
     page |-> JInt(a.page),
     per_page |-> JInt(a.per_page),
     order |-> JStr(a.order),
     must_have_cooksnaps |-> Lower(PyStr(JBool(a.must_have_cooksnaps))),
     minimum_number_of_cooksnaps |-> JInt(a.minimum_cooksnaps),
     must_have_photo_in_steps |-> Lower(PyStr(JBool(a.must_have_photo_in_steps))),
     from_delicious_ways |-> JStr("false"),
     search_source |-> JStr("recipe.search.typed_query"),
     supported_types |-> JStr(SUPPORTED_SEARCH_TYPES),
     included_ingredients |-> JStr(a.included_ingredients),
     excluded_ingredients |-> JStr(a.excluded_ingredients)]

\* The params dict of search_recipes.
search_params(a) ==
    LET base ==
            [query |-> JStr(a.query),
             page |-> JInt(a.page),
             per_page |-> JInt(a.per_page),
             order |-> JStr(a.order),
             must_have_cooksnaps |-> Lower(PyStr(JBool(a.must_have_cooksnaps))),
             minimum_number_of_cooksnaps |-> JInt(a.minimum_cooksnaps),
             must_have_photo_in_steps |-> Lower(PyStr(JBool(a.must_have_photo_in_steps))),
             from_delicious_ways |-> JStr("false"),
             search_source |-> JStr("recipe.search.typed_query"),
             supported_types |-> JStr(SUPPORTED_SEARCH_TYPES)]
        inc == IF Truthy(JStr(a.included_ingredients))
               THEN SetItem(base, "included_ingredients", JStr(a.included_ingredients))
               ELSE base
    IN  IF Truthy(JStr(a.excluded_ingredients))
        THEN SetItem(inc, "excluded_ingredients", JStr(a.excluded_ingredients))
        ELSE inc

\* json.dumps of a list of strings.
json_dumps(v) == "[" \o Join(", ", [i \in 1..Len(v.l) |-> "\"" \o v.l[i].s \o "\""]) \o "]"

\* The path and the params each operation hands to _request.
PathOf(op, a) ==
    CASE op = "search_recipes" -> "/search_results"
      [] op = "get_recipe" -> "/recipes/" \o ToString(a.recipe_id)
      [] op = "get_similar_recipes" ->
            "/recipes/" \o ToString(a.recipe_id) \o "/similar_recipes"
      [] op = "get_comments" -> "/recipes/" \o ToString(a.recipe_id) \o "/comments"
      [] op = "search_users" -> "/users"
      [] op = "search_keywords" -> "/search_keywords"
      [] op = "get_search_history" -> "/search_history"

ParamsOf(op, a) ==
    CASE op = "search_recipes" -> JObj(search_params(a))
      [] op = "get_recipe" -> PyNone
      [] op = "get_similar_recipes" ->
            JObj([page |-> JInt(a.page), per_page |-> JInt(a.per_page)])
      [] op = "get_comments" ->
            JObj([limit |-> JInt(a.limit), after |-> JStr(a.after),
                  label |-> JStr(a.label)])
      [] op = "search_users" ->
            JObj([query |-> JStr(a.query), page |-> JInt(a.page),
                  per_page |-> JInt(a.per_page)])
      [] op = "search_keywords" -> JObj([query |-> JStr(a.query)])
      [] op = "get_search_history" ->
            JObj([local_search_history |->
                    JStr(json_dumps(Or(a.local_history, JList(<<>>))))])

(***************************************************************************)
(* cookpad/client.py: status triage and the operations' results.           *)
(***************************************************************************)
\* The status codes the transport answers with.
Statuses == {200, 399, 400, 401, 404, 429, 500}

\* A response body that is no JSON text.
NotJson == [t |-> "notjson"]

\* status_error without its 404 branch: a 404 falls through to the generic
\* kind.
status_error_no404(status) ==
    IF status = 401 THEN Raise("AuthenticationError")
    ELSE IF status = 429 THEN Raise("RateLimitError")
    ELSE IF status >= 400 THEN [t |-> "raise", e |-> "APIError", status_code |-> status]
    ELSE PyNone

\* The exception _request raises for a status, None when it raises none.
status_error(status) ==
    IF status = 401 THEN Raise("AuthenticationError")
    ELSE IF status = 404 THEN Raise("NotFoundError")
    ELSE IF status = 429 THEN Raise("RateLimitError")
    ELSE IF status >= 400 THEN [t |-> "raise", e |-> "APIError", status_code |-> status]
    ELSE PyNone

\* resp.json(): a JSON body is written as the value it denotes.
resp_json(body) == IF body = NotJson THEN Raise("JSONDecodeError") ELSE body

\* [parse_recipe(r) for r in v]
parse_recipes(v) ==
    CASE v.t = "list" -> FirstRaiseOr([i \in 1..Len(v.l) |-> parse_recipe(v.l[i])])
      [] v.t \in {"null", "int", "bool"} -> Raise("TypeError")

\* What each operation makes of the data _request returned.
op_result(op, data) ==
    CASE op = "search_recipes" -> parse_search_response(data)
      [] op = "get_recipe" ->
            IF ~IsObj(data) THEN Raise("TypeError")
            ELSE IF ~Has(data, "result") THEN Raise("KeyError")
            ELSE parse_recipe(data.o["result"])
      [] op = "get_similar_recipes" ->
            IF ~IsObj(data) THEN Raise("AttributeError")
            ELSE parse_recipes(Get(data, "result", JList(<<>>)))
      [] op = "get_comments" -> parse_comments_response(data)
      [] op = "search_users" -> parse_users_response(data)
      [] op = "search_keywords" ->
            IF ~IsObj(data) THEN Raise("AttributeError")
            ELSE Get(data, "result", EmptyObj)
      [] op = "get_search_history" -> data

\* The outcome of an operation whose request was answered with (status, body).
op_outcome(op, status, body) ==
    LET err == status_error(status) IN
    IF err # PyNone THEN err
    ELSE LET data == resp_json(body) IN
         IF IsRaise(data) THEN data ELSE op_result(op, data)

\* The bodies the upstream answers with, per operation.
BodiesOf(op) ==
    CASE op = "search_recipes" ->
            { JObj([result |-> JList(<<
                        JObj([type |-> JStr("search_results/recipe"), id |-> JInt(1),
                              title |-> JStr("A")]),
                        JObj([type |-> JStr("search_results/title"),
                              title |-> JStr("sep")]) >>),
                    extra |-> FullExtra]) }
      [] op = "get_recipe" -> { JObj([result |-> FullRecipe]) }
      [] op = "get_similar_recipes" -> { JObj([result |-> JList(<<FullRecipe>>)]) }
      [] op = "get_comments" -> { JObj([result |-> JList(<<FullComment>>)]) }
      [] op = "search_users" ->
            { JObj([result |-> JList(<<FullUser>>), extra |-> FullExtra]) }
      [] op = "search_keywords" -> { JObj([result |-> JObj([q |-> JStr("curry")])]) }
      [] op = "get_search_history" -> { JObj([result |-> JList(<<>>)]) }

(***************************************************************************)
(* cookpad/client.py: the client as a state machine.                       *)
(***************************************************************************)
\* `self._client = None`
None == 0

Tasks == {"t1", "t2"}

\* The tasks that call operations: one caller awaiting its calls in turn.
Callers == {"t1"}

Handles == 1..MaxHandles

NoArgs == [none |-> TRUE]

NoHeaders == [k \in {} |-> ""]

\* No call was made before: `prev` holds the handle the task's previous call
\* used and whether that call ended with one of the four error kinds.
NoCall == [handle |-> None, error |-> FALSE]

\* A task outside any call.  Of a call, `headers` is the header dict of its
\* request, `gets` the number of GET requests it issued, `body` the body of
\* the response it received.
IdleTask ==
    [pc |-> "idle", op |-> "", args |-> NoArgs, path |-> "", params |-> PyNone,
     handle |-> None, fresh |-> FALSE, status |-> 0, json |-> FALSE,
     outcome |-> PyNone, headers |-> NoHeaders, gets |-> 0, body |-> PyNone,
     prev |-> NoCall]

Init ==
    /\ client = None
    /\ created = 0
    /\ closeCount = [h \in Handles |-> 0]
    /\ depth = 0
    /\ exiting = FALSE
    /\ task = [t \in Tasks |-> IdleTask]
    /\ config \in Configs
    /\ drawn = 0
    /\ guidsSent = {}
    /\ fn = "none"
    /\ input = PyNone
    /\ output = PyNone

\* __aenter__: a new handle replaces whatever the client holds.
AEnter ==
    /\ ~exiting
    /\ depth < MaxDepth
    /\ created < MaxHandles
    /\ created' = created + 1
    /\ client' = created + 1
    /\ depth' = depth + 1
    /\ UNCHANGED <<closeCount, exiting, task, config, drawn, guidsSent, decodeVars>>

\* __aexit__ up to its await: `if self._client: await self._client.aclose()`.
AExitClose ==
    /\ ~exiting
    /\ depth > 0
    /\ IF client # None
       THEN /\ closeCount' = [closeCount EXCEPT ![client] = @ + 1]
            /\ exiting' = TRUE
            /\ depth' = depth
       ELSE /\ depth' = depth - 1
            /\ UNCHANGED <<closeCount, exiting>>
    /\ UNCHANGED <<client, created, task, config, drawn, guidsSent, decodeVars>>

\* aexit_client without the reset: the closed handle stays in the field.
aexit_client_kept(c) == c

\* The handle field after __aexit__, given the handle it closed.
aexit_client(c) == None

\* __aexit__ after its await: `self._client = None`.
AExitClear ==
    /\ exiting
    /\ client' = aexit_client(client)
    /\ exiting' = FALSE
    /\ depth' = depth - 1
    /\ UNCHANGED <<created, closeCount, task, config, drawn, guidsSent, decodeVars>>

\* ensure_client constructing a handle although the first one is held.
ensure_client_second_handle(c, n) == IF c = None \/ n = 1 THEN n + 1 ELSE c

\* ensure_client constructing a handle for every request.
ensure_client_always_new(c, n) == n + 1

\* `if self._client is None: self._client = httpx.AsyncClient()`: the handle
\* held after the test, given the handle held before it and the number of
\* handles constructed so far.
ensure_client(c, n) == IF c = None THEN n + 1 ELSE c

\* An operation up to the await of _request: the params are built, a handle
\* is acquired if none is held, and the GET is issued on the handle held.  A
\* handle that was closed refuses the request (httpx raises RuntimeError).
\* `fresh` records that this call constructed the handle.  The headers are
\* built while the arguments of get() are evaluated, with a uuid4 value drawn
\* for this request.
Send(t) ==
    /\ task[t].pc = "idle"
    /\ client = None => created < MaxHandles
    /\ drawn < MaxRequests
    /\ \E op \in Ops : \E a \in ArgsOf(op) :
          LET h == ensure_client(client, created)
              hs == headers(config, uuid4(drawn + 1))
          IN
          /\ client' = h
          /\ created' = IF client = None THEN created + 1 ELSE created
          /\ drawn' = drawn + 1
          /\ guidsSent' = IF closeCount[h] > 0 THEN guidsSent
                          ELSE guidsSent \cup {hs["X-Cookpad-Guid"]}
          /\ task' = [task EXCEPT ![t] =
                IF closeCount[h] > 0
                THEN [IdleTask EXCEPT !.pc = "done", !.op = op, !.handle = h,
                                      !.fresh = (client = None),
                                      !.outcome = Raise("RuntimeError")]
                ELSE [IdleTask EXCEPT !.pc = "awaiting", !.op = op, !.args = a,
                                      !.path = PathOf(op, a),
                                      !.params = ParamsOf(op, a), !.handle = h,
                                      !.fresh = (client = None),
                                      !.headers = hs, !.gets = 1,
                                      !.prev = task[t].prev]]
    /\ UNCHANGED <<closeCount, depth, exiting, config, decodeVars>>

\* after_response repeating the request on a 429.
after_response_retry_429(status) == IF status = 429 THEN "awaiting" ELSE "done"

\* Where _request stands once the response is in: every branch behind the
\* await raises or returns, none issues a second get().
after_response(status) == "done"

\* The response arrives: _request classifies the status and, below 400,
\* decodes the body; the operation decodes the data and returns.
Receive(t) ==
    /\ task[t].pc = "awaiting"
    /\ \E status \in Statuses : \E body \in BodiesOf(task[t].op) \cup {EmptyObj, NotJson} :
          task' = [task EXCEPT ![t] =
                [IdleTask EXCEPT !.pc = after_response(status), !.op = task[t].op,
                                 !.handle = task[t].handle, !.status = status,
                                 !.json = (status_error(status) = PyNone),
                                 !.outcome = op_outcome(task[t].op, status, body),
                                 !.gets = task[t].gets +
                                    (IF after_response(status) = "awaiting" THEN 1 ELSE 0),
                                 !.body = body]]
    /\ UNCHANGED <<client, created, closeCount, depth, exiting, config, drawn,
                   guidsSent, decodeVars>>

\* The transport fails (connection reset, timeout, handle closed under the
\* request): its exception propagates unwrapped.
TransportFail(t) ==
    /\ task[t].pc = "awaiting"
    /\ task' = [task EXCEPT ![t] =
          [IdleTask EXCEPT !.pc = "done", !.op = task[t].op, !.handle = task[t].handle,
                           !.outcome = Raise("TransportError"),
                           !.gets = task[t].gets]]
    /\ UNCHANGED <<client, created, closeCount, depth, exiting, config, drawn,
                   guidsSent, decodeVars>>

\* The caller takes the outcome; the task may call again.
Return(t) ==
    /\ task[t].pc = "done"
    /\ task' = [task EXCEPT ![t] =
          [IdleTask EXCEPT !.prev =
                [handle |-> task[t].handle,
                 error |-> IsRaise(task[t].outcome) /\ task[t].outcome.e \in ErrorKinds]]]
    /\ UNCHANGED <<client, created, closeCount, depth, exiting, config, drawn,
                   guidsSent, decodeVars>>

Next ==
    \/ AEnter
    \/ AExitClose
    \/ AExitClear
    \/ \E t \in Callers : Send(t)
    \/ \E t \in Callers : Receive(t)
    \/ \E t \in Callers : TransportFail(t)
    \/ \E t \in Callers : Return(t)

Spec == Init /\ [][Next]_vars

(***************************************************************************)
(* Operations invoked concurrently: the tasks of one event loop call        *)
(* operations on one client, interleaved at the await of each request, on  *)
(* a client with the default configuration that was never used or that is *)
(* inside a scope.                                                         *)
(***************************************************************************)
InitConcurrent ==
    /\ \E entered \in BOOLEAN :
          /\ client = IF entered THEN 1 ELSE None
          /\ created = IF entered THEN 1 ELSE 0
          /\ depth = IF entered THEN 1 ELSE 0
    /\ closeCount = [h \in Handles |-> 0]
    /\ exiting = FALSE
    /\ task = [t \in Tasks |-> IdleTask]
    /\ config = DefaultConfig
    /\ drawn = 0
    /\ guidsSent = {}
    /\ fn = "none"
    /\ input = PyNone
    /\ output = PyNone

NextConcurrent ==
    \/ \E t \in Tasks : Send(t)
    \/ \E t \in Tasks : Receive(t)
    \/ \E t \in Tasks : TransportFail(t)
    \/ \E t \in Tasks : Return(t)

SpecConcurrent == InitConcurrent /\ [][NextConcurrent]_vars

(***************************************************************************)
(* The decoders applied to their inputs: one run applies one decoder to    *)
(* one input.                                                              *)
(***************************************************************************)
Decoded(f, d, r) == fn' = f /\ input' = d /\ output' = r

ParseImage ==
    /\ fn = "none"
    /\ \E m \in 0..MaxVaried : \E vs \in [1..m -> ImagePairs] :
          LET d == AlterAll(FullImage, vs, 1) IN
          Decoded("parse_image", d, parse_image(d))
    /\ UNCHANGED clientVars

ParseIngredient ==
    /\ fn = "none"
    /\ \E m \in 0..MaxVaried : \E vs \in [1..m -> IngredientPairs] :
          LET d == AlterAll(FullIngredient, vs, 1) IN
          Decoded("parse_ingredient", d, parse_ingredient(d))
    /\ UNCHANGED clientVars

ParseStep ==
    /\ fn = "none"
    /\ \E m \in 0..MaxVaried : \E vs \in [1..m -> StepPairs] :
       \E atts \in NullOrAbsent \cup Lists(AttachmentPool, MaxAtts) :
          LET d == Alter(AlterAll(FullStep, vs, 1), "attachments", atts) IN
          Decoded("parse_step", d, parse_step(d))
    /\ UNCHANGED clientVars

ParseUser ==
    /\ fn = "none"
    /\ \E m \in 0..MaxVaried : \E vs \in [1..m -> UserPairs] :
          LET d == AlterAll(FullUser, vs, 1) IN
          Decoded("parse_user", d, parse_user(d))
    /\ UNCHANGED clientVars

ParseRecipe ==
    /\ fn = "none"
    /\ \E m \in 0..MaxVaried : \E vs \in [1..m -> RecipePairs] :
          LET d == AlterAll(FullRecipe, vs, 1) IN
          Decoded("parse_recipe", d, parse_recipe(d))
    /\ UNCHANGED clientVars

ParseComment ==
    /\ fn = "none"
    /\ \E m \in 0..MaxVaried : \E vs \in [1..m -> CommentPairs] :
          LET d == AlterAll(FullComment, vs, 1) IN
          Decoded("parse_comment", d, parse_comment(d))
    /\ UNCHANGED clientVars

ParseSearchResponse ==
    /\ fn = "none"
    /\ \E d \in SearchPayloads :
          Decoded("parse_search_response", d, parse_search_response(d))
    /\ UNCHANGED clientVars

ParseCommentsResponse ==
    /\ fn = "none"
    /\ \E d \in CommentsPayloads :
          Decoded("parse_comments_response", d, parse_comments_response(d))
    /\ UNCHANGED clientVars

ParseUsersResponse ==
    /\ fn = "none"
    /\ \E d \in UsersPayloads :
          Decoded("parse_users_response", d, parse_users_response(d))
    /\ UNCHANGED clientVars

NextDecode ==
    \/ ParseImage
    \/ ParseIngredient
    \/ ParseStep
    \/ ParseUser
    \/ ParseRecipe
    \/ ParseComment
    \/ ParseSearchResponse
    \/ ParseCommentsResponse
    \/ ParseUsersResponse

SpecDecode == Init /\ [][NextDecode]_vars

(***************************************************************************)
(* Properties of the client, checked under Spec.                           *)
(***************************************************************************)

\* C1: for every operation and every HTTP response the status code alone
\* decides the outcome: 401 raises AuthenticationError, 404 NotFoundError,
\* 429 RateLimitError, any other status >= 400 APIError carrying that status;
\* one of the four kinds is raised only for a status >= 400, each has the
\* base CookpadError, the four are distinct, and the body is JSON-decoded
\* exactly when the status is below 400.
C1_StatusDecidesOutcome ==
    \A t \in Tasks :
        (task[t].pc = "done" /\ task[t].status # 0) =>
            LET s == task[t].status
                o == task[t].outcome
            IN  /\ s = 401 => o = Raise("AuthenticationError")
                /\ s = 404 => o = Raise("NotFoundError")
                /\ s = 429 => o = Raise("RateLimitError")
                /\ (s >= 400 /\ s \notin {401, 404, 429}) =>
                        o = [t |-> "raise", e |-> "APIError", status_code |-> s]
                /\ s < 400 => (~IsRaise(o) \/ o.e \notin ErrorKinds)
                /\ (IsRaise(o) /\ o.e \in ErrorKinds) => BaseOf(o.e) = "CookpadError"
                /\ Cardinality(ErrorKinds) = 4
                /\ task[t].json <=> (s < 400)

\* C1 witness: get_recipe answered with 404 has raised NotFoundError.
C1_Witness ==
    \E t \in Tasks :
        /\ task[t].pc = "done"
        /\ task[t].op = "get_recipe"
        /\ task[t].status = 404
        /\ task[t].outcome = Raise("NotFoundError")
        /\ ~task[t].json

\* C2: every handle the client acquired is released exactly once by the
\* scope exit that follows: no handle is closed twice, and once the client
\* holds no handle (a scope exit has run) and no call is under way, every
\* handle constructed so far has been closed once.
C2_ReleasedExactlyOnce ==
    /\ \A h \in 1..created : closeCount[h] <= 1
    /\ (client = None /\ ~exiting /\ \A t \in Tasks : task[t].pc = "idle") =>
            \A h \in 1..created : closeCount[h] = 1

\* C3: an operation called while the client holds no handle constructs a new
\* one and issues its request on it, and an operation called outside a scope
\* exit never fails for a closed handle: its request goes out on a handle that
\* was not released.
C3_ReacquiresTransparently ==
    [][\A t \in Tasks :
          (task[t].pc = "idle" /\ task'[t].pc # "idle" /\ ~exiting) =>
              /\ task'[t].pc = "awaiting"
              /\ task'[t].handle = client'
              /\ closeCount'[client'] = 0
              /\ client = None =>
                    /\ created' = created + 1
                    /\ client' = created'
                    /\ task'[t].fresh]_vars

\* C3 witness: after a scope exit released a handle, a call made outside any
\* scope has constructed a new handle and awaits its response on it.
C3_Witness ==
    \E t \in Tasks :
        /\ task[t].pc = "awaiting"
        /\ task[t].fresh
        /\ task[t].handle = client
        /\ depth = 0
        /\ closeCount[client] = 0
        /\ \E h \in 1..created : closeCount[h] = 1

\* C10: the params of search_recipes hold included_ingredients (resp.
\* excluded_ingredients) exactly when the argument is a non-empty string, and
\* then with that value; query, page, per_page, order, the two booleans as
\* "true"/"false" and supported_types are always present.
C10_IngredientFiltersOnlyWhenGiven ==
    \A t \in Tasks :
        (task[t].pc = "awaiting" /\ task[t].op = "search_recipes") =>
            LET a == task[t].args
                p == task[t].params.o
            IN  /\ ("included_ingredients" \in DOMAIN p) <=> (a.included_ingredients # "")
                /\ ("excluded_ingredients" \in DOMAIN p) <=> (a.excluded_ingredients # "")
                /\ a.included_ingredients # "" =>
                        p["included_ingredients"] = JStr(a.included_ingredients)
                /\ a.excluded_ingredients # "" =>
                        p["excluded_ingredients"] = JStr(a.excluded_ingredients)
                /\ { "query", "page", "per_page", "order", "must_have_cooksnaps",
                     "must_have_photo_in_steps", "supported_types" } \subseteq DOMAIN p
                /\ p["query"] = JStr(a.query)
                /\ p["page"] = JInt(a.page)
                /\ p["per_page"] = JInt(a.per_page)
                /\ p["order"] = JStr(a.order)
                /\ p["must_have_cooksnaps"] =
                        JStr(IF a.must_have_cooksnaps THEN "true" ELSE "false")
                /\ p["must_have_photo_in_steps"] =
                        JStr(IF a.must_have_photo_in_steps THEN "true" ELSE "false")
                /\ p["supported_types"] = JStr(SUPPORTED_SEARCH_TYPES)

\* C10 witness: a search with an excluded ingredient and no included one is
\* in flight, with excluded_ingredients in its params and no
\* included_ingredients key.
C10_Witness ==
    \E t \in Tasks :
        /\ task[t].pc = "awaiting"
        /\ task[t].op = "search_recipes"
        /\ task[t].args.included_ingredients = ""
        /\ task[t].args.excluded_ingredients = "nuts"
        /\ task[t].args.must_have_cooksnaps
        /\ "included_ingredients" \notin DOMAIN task[t].params.o
        /\ task[t].params.o["excluded_ingredients"] = JStr("nuts")

\* The outcome is one of the four error kinds of the client.
IsErrorKind(o) == IsRaise(o) /\ o.e \in ErrorKinds

\* C11: for every interleaving of operations invoked concurrently on one
\* client, also one that holds no handle at the start: no step of an
\* operation writes the client's state except the first use that fills the
\* empty handle field, at most one handle is constructed, every request in
\* flight was issued on the handle the client holds and that handle is not
\* released, and each completed operation's outcome is the one its own
\* response decides.
C11_ConcurrentOperationsSafe ==
    [][/\ client' # client => (client = None /\ created' = created + 1)
       /\ created' # created => client = None
       /\ closeCount' = closeCount
       /\ config' = config
       /\ created' <= 1
       /\ \A t \in Tasks :
            /\ task'[t].pc = "awaiting" =>
                  /\ task'[t].handle = client'
                  /\ client' # None
                  /\ closeCount'[client'] = 0
            /\ task'[t].pc = "done" =>
                  /\ task'[t].status # 0
                        => task'[t].outcome =
                              op_outcome(task'[t].op, task'[t].status, task'[t].body)
                  /\ task'[t].outcome # Raise("RuntimeError")
            /\ task'[t] # task[t] => \A u \in Tasks \ {t} : task'[u] = task[u]]_vars

\* C11 witness: on a client that held no handle, two operations are in flight
\* at once on the one handle the first of them constructed.
C11_Witness ==
    /\ depth = 0
    /\ created = 1
    /\ task["t1"].pc = "awaiting"
    /\ task["t2"].pc = "awaiting"
    /\ task["t1"].handle = client
    /\ task["t2"].handle = client
    /\ task["t1"].fresh # task["t2"].fresh
    /\ task["t1"].op # task["t2"].op

\* C12: an invocation of an operation issues exactly one GET whatever the
\* response status: once the response is in, the invocation is over with its
\* outcome (the error of a status >= 400 included) without a further
\* request, and the task issues nothing more until it is called again.
C12_OneGetPerInvocation ==
    [][\A t \in Tasks :
          /\ task'[t].pc = "awaiting" => task'[t].gets = 1
          /\ (task[t].pc = "awaiting" /\ task'[t] # task[t]) =>
                /\ task'[t].pc = "done"
                /\ task'[t].gets = 1
                /\ drawn' = drawn
                /\ guidsSent' = guidsSent
                /\ task'[t].status >= 400 => IsErrorKind(task'[t].outcome)
          /\ (task[t].pc = "done" /\ task'[t] # task[t]) => task'[t].pc = "idle"]_vars

\* C12 witness: a call answered with 429 is over with RateLimitError after
\* one GET.
C12_Witness ==
    \E t \in Tasks :
        /\ task[t].pc = "done"
        /\ task[t].status = 429
        /\ task[t].outcome = Raise("RateLimitError")
        /\ task[t].gets = 1

\* C13: the headers are built for each request, with a uuid4 value drawn for
\* it, and the X-Cookpad-Guid of a request differs from that of every request
\* issued before it.
C13_GuidNeverReused ==
    [][\A t \in Tasks :
          (task[t].pc = "idle" /\ task'[t].pc = "awaiting") =>
              /\ drawn' = drawn + 1
              /\ task'[t].headers["X-Cookpad-Guid"] \notin guidsSent
              /\ guidsSent' = guidsSent \cup {task'[t].headers["X-Cookpad-Guid"]}
              /\ Cardinality(guidsSent') = Cardinality(guidsSent) + 1]_vars

\* C13 witness: the second request of a client is in flight, its identifier
\* the second distinct one.
C13_Witness ==
    \E t \in Tasks :
        /\ task[t].pc = "awaiting"
        /\ Cardinality(guidsSent) = 2
        /\ task[t].headers["X-Cookpad-Guid"] = GuidOf(2)
        /\ GuidOf(1) \in guidsSent

\* C14: an operation answered with a status below 400 and a JSON object as
\* body returns a value and raises nothing, whatever keys the object lacks.
C14_ObjectBodyNeverRaises ==
    \A t \in Tasks :
        (task[t].pc = "done" /\ task[t].status # 0 /\ task[t].status < 400
            /\ IsObj(task[t].body)) => ~IsRaise(task[t].outcome)

\* C15: the seven configuration values never change after construction, by
\* no scope entry, scope exit or operation, and the headers of every request
\* carry the values derived from them.
C15_ConfigurationFixed ==
    [][/\ config' = config
       /\ \A t \in Tasks :
            task'[t].pc = "awaiting" =>
                LET hs == task'[t].headers IN
                /\ hs["Authorization"] = "Bearer " \o config.token
                /\ hs["X-Cookpad-Country-Selected"] = config.country
                /\ hs["X-Cookpad-Timezone-Id"] = config.timezone_id
                /\ hs["X-Cookpad-Provider-Id"] = config.provider_id
                /\ hs["X-Cookpad-Timezone-Offset"] = config.timezone_offset
                /\ hs["Accept-Language"] = config.language
                /\ hs["User-Agent"] = config.user_agent]_vars

\* C15 witness: a client constructed with its own values has, after a scope
\* exit and a failed operation, a request in flight that carries them.
C15_Witness ==
    \E t \in Tasks :
        /\ config # DefaultConfig
        /\ task[t].pc = "awaiting"
        /\ task[t].prev.error
        /\ \E h \in 1..created : closeCount[h] = 1
        /\ task[t].headers["Authorization"] = "Bearer tok"
        /\ task[t].headers["User-Agent"] = "ua"

\* C16: an operation that ends with one of the four error kinds leaves the
\* handle field, the handles constructed and their release counts as they
\* were, and the next operation called while a handle is held issues its
\* request on that handle and constructs none; a handle is constructed only
\* when the client holds none.
C16_ErrorKeepsHandle ==
    [][\A t \in Tasks :
          /\ (task[t].pc = "awaiting" /\ task'[t].pc = "done"
                /\ IsErrorKind(task'[t].outcome)) =>
                /\ client' = client
                /\ created' = created
                /\ closeCount' = closeCount
          /\ (task[t].pc = "done" /\ task'[t].pc = "idle") =>
                /\ client' = client
                /\ created' = created
                /\ closeCount' = closeCount
          /\ (task[t].pc = "idle" /\ task'[t].pc # "idle" /\ client # None) =>
                /\ task'[t].handle = client
                /\ client' = client
                /\ created' = created
                /\ ~task'[t].fresh
          /\ (task[t].pc = "idle" /\ task'[t].pc # "idle" /\ created' # created) =>
                client = None]_vars

\* C16 witness: the call before ended with one of the four error kinds, and
\* the next call is in flight on the same handle, which is still the one held
\* and the only one constructed.
C16_Witness ==
    \E t \in Tasks :
        /\ task[t].pc = "awaiting"
        /\ task[t].prev.error
        /\ task[t].prev.handle = task[t].handle
        /\ task[t].handle = client
        /\ ~task[t].fresh
        /\ created = 1
        /\ closeCount[client] = 0

(***************************************************************************)
(* Properties of the decoders, checked under SpecDecode.                   *)
(***************************************************************************)
DecoderNames ==
    { "parse_image", "parse_ingredient", "parse_step", "parse_user", "parse_recipe",
      "parse_comment", "parse_search_response", "parse_comments_response",
      "parse_users_response" }

\* The key is missing from the object, or holds an explicit null.
MissingOrNull(d, k) == ~Has(d, k) \/ d.o[k] = PyNone

\* C4: every decoder returns an entity, and raises nothing, for every input
\* whose keys are absent, null or present at every nesting level.
C4_DecodersTotal == fn \in DecoderNames => ~IsRaise(output)

\* The fields C5 names, per decoder.
PlainStringFields(f) ==
    CASE f = "parse_image" -> {"url", "filename"}
      [] f = "parse_ingredient" -> {"name", "quantity"}
      [] f = "parse_user" -> {"name", "cookpad_id"}
      [] f = "parse_recipe" -> {"title", "published_at", "href"}
      [] f = "parse_comment" -> {"body", "cursor"}
      [] OTHER -> {}

OptionalStringFields(f) ==
    CASE f = "parse_image" -> {"alt_text"}
      [] f = "parse_recipe" -> {"cooking_time"}
      [] OTHER -> {}

\* C5: a null value decodes as a missing key does: a plain-string field to
\* "", an optional-string field (alt_text, cooking_time, image_url) to None,
\* profile_message to "".
C5_NullAsMissing ==
    (fn \in DecoderNames /\ ~IsRaise(output)) =>
        /\ \A k \in PlainStringFields(fn) :
                MissingOrNull(input, k) => output[k] = JStr("")
        /\ \A k \in OptionalStringFields(fn) :
                MissingOrNull(input, k) => output[k] = PyNone
        /\ (fn \in {"parse_user", "parse_recipe", "parse_comment"}
                /\ MissingOrNull(input, "image")) => output.image_url = PyNone
        /\ (fn = "parse_user" /\ MissingOrNull(input, "profile_message")) =>
                output.profile_message = JStr("")

\* An attachment exposes a URL: a direct `url`, or an `image` object with one.
ExposesUrl(att) ==
    \/ Has(att, "url")
    \/ (Has(att, "image") /\ IsObj(att.o["image"]) /\ Has(att.o["image"], "url"))

ExposedUrl(att) == IF Has(att, "url") THEN att.o["url"] ELSE att.o["image"].o["url"]

\* C6: the step decoder's image_url is the URL of the first attachment, in
\* list order, that exposes a direct `url` or a nested `image.url`;
\* attachments exposing neither are skipped; it is None when the list is
\* empty or no attachment qualifies.
C6_FirstQualifyingAttachment ==
    (fn = "parse_step" /\ Has(input, "attachments") /\ IsList(input.o["attachments"])
        /\ ~IsRaise(output)) =>
        LET atts == input.o["attachments"].l
            q == { i \in 1..Len(atts) : ExposesUrl(atts[i]) }
        IN  output.image_url =
                IF q = {} THEN PyNone
                ELSE ExposedUrl(atts[CHOOSE i \in q : \A j \in q : i <= j])

\* The items of a payload's `result` list (none when the key is absent).
ResultItems(d) == IF Has(d, "result") THEN d.o["result"].l ELSE <<>>

\* `result` is absent or a list, and `extra` and `extra.links` are absent or
\* objects.
EnvelopeWellFormed(d) ==
    /\ Has(d, "result") => IsList(d.o["result"])
    /\ Has(d, "extra") =>
          /\ IsObj(d.o["extra"])
          /\ Has(d.o["extra"], "links") => IsObj(d.o["extra"].o["links"])

\* The item carries the recipe-card tag.
TaggedRecipe(item) == Has(item, "type") /\ item.o["type"] = JStr("search_results/recipe")

\* A recipe card's `ingredients` and `steps`, and its steps' `attachments`,
\* are absent or lists.
CardWellFormed(item) ==
    /\ Has(item, "ingredients") => IsList(item.o["ingredients"])
    /\ Has(item, "steps") =>
          /\ IsList(item.o["steps"])
          /\ \A i \in 1..Len(item.o["steps"].l) :
                Has(item.o["steps"].l[i], "attachments") =>
                    IsList(item.o["steps"].l[i].o["attachments"])

\* A listing payload: a well-formed envelope whose recipe cards are
\* well-formed (items of other kinds may hold anything).
ListingPayload(d) ==
    /\ EnvelopeWellFormed(d)
    /\ \A i \in 1..Len(ResultItems(d)) :
          TaggedRecipe(ResultItems(d)[i]) => CardWellFormed(ResultItems(d)[i])

\* C7: for every listing payload (result, extra and extra.links absent or of
\* their type, the lists of each recipe card absent or lists) the search
\* decoder returns one Recipe per item tagged search_results/recipe, in the
\* order of the items, drops every other item without error, and returns the
\* payload itself as raw.
C7_RecipeCardsInOrder ==
    (fn = "parse_search_response" /\ ListingPayload(input)) =>
        LET cards == SelectSeq(ResultItems(input), TaggedRecipe) IN
        /\ ~IsRaise(output)
        /\ output.recipes = JList([i \in 1..Len(cards) |-> parse_recipe(cards[i])])
        /\ output.raw = input

\* C7 witness: a four-item listing, a separator, a recipe card, another kind
\* of card holding a null list, a recipe card, decoded to the two recipes in
\* that order.
C7_Witness ==
    /\ fn = "parse_search_response"
    /\ ListingPayload(input)
    /\ Len(ResultItems(input)) = 4
    /\ ~TaggedRecipe(ResultItems(input)[1])
    /\ TaggedRecipe(ResultItems(input)[2])
    /\ ResultItems(input)[3] =
            JObj([type |-> JStr("search_results/visual_guides"), steps |-> PyNone])
    /\ TaggedRecipe(ResultItems(input)[4])
    /\ Len(output.recipes.l) = 2
    /\ output.recipes.l[1].id = JInt(2)
    /\ output.recipes.l[2].id = JInt(1)
    /\ output.raw = input

\* The comment carries a cursor: the key holds a non-empty string.
CarriesCursor(c) == Has(c, "cursor") /\ c.o["cursor"] \notin {PyNone, JStr("")}

\* C8: for every comments payload (result absent or a list) the decoder
\* returns the comments in input order, and next_cursor is the cursor of the
\* last comment: None exactly when the list is empty or the last comment
\* carries no cursor, whatever the earlier comments carry.
C8_NextCursorOfLast ==
    (fn = "parse_comments_response" /\ EnvelopeWellFormed(input)) =>
        LET items == ResultItems(input)
            n == Len(items)
        IN  /\ ~IsRaise(output)
            /\ output.comments = JList([i \in 1..n |-> parse_comment(items[i])])
            /\ output.next_cursor =
                    IF n > 0 /\ CarriesCursor(items[n]) THEN items[n].o["cursor"]
                    ELSE PyNone
            /\ (output.next_cursor = PyNone) <=> (n = 0 \/ ~CarriesCursor(items[n]))

\* C8 witness: two comments with distinct cursors, next_cursor that of the
\* second.
C8_Witness ==
    /\ fn = "parse_comments_response"
    /\ EnvelopeWellFormed(input)
    /\ Len(ResultItems(input)) = 2
    /\ CarriesCursor(ResultItems(input)[1])
    /\ ResultItems(input)[1].o["cursor"] = JStr("c1")
    /\ CarriesCursor(ResultItems(input)[2])
    /\ ResultItems(input)[2].o["cursor"] = JStr("c2")
    /\ output.next_cursor = JStr("c2")
    /\ Len(output.comments.l) = 2

\* The payload has extra.links.next.page.
HasNextPage(d) ==
    /\ Has(d, "extra") /\ IsObj(d.o["extra"])
    /\ Has(d.o["extra"], "links") /\ IsObj(d.o["extra"].o["links"])
    /\ Has(d.o["extra"].o["links"], "next")
    /\ IsObj(d.o["extra"].o["links"].o["next"])
    /\ Has(d.o["extra"].o["links"].o["next"], "page")

\* C9: for the search and the users decoder, on every listing payload:
\* next_page is extra.links.next.page when the payload has it and None when
\* extra, links, next or page is absent; total_count is extra.total_count,
\* or 0 when it is missing.
C9_NextPageAndTotalCount ==
    (fn \in {"parse_search_response", "parse_users_response"} /\ ListingPayload(input)) =>
        /\ ~IsRaise(output)
        /\ output.next_page =
                IF HasNextPage(input) THEN input.o["extra"].o["links"].o["next"].o["page"]
                ELSE PyNone
        /\ output.total_count =
                IF Has(input, "extra") /\ Has(input.o["extra"], "total_count")
                THEN input.o["extra"].o["total_count"]
                ELSE JInt(0)

\* C9 witness: a users listing with extra.links.next.page = 2 and
\* total_count = 10 decoded to next_page 2 and total_count 10.
C9_Witness ==
    /\ fn = "parse_users_response"
    /\ ListingPayload(input)
    /\ HasNextPage(input)
    /\ Len(ResultItems(input)) = 2
    /\ output.next_page = JInt(2)
    /\ output.total_count = JInt(10)

====
